---- MODULE Spec2Model ----
(***************************************************************************)
(* Model of src/risk.py: class CompareMetrics.                             *)
(*                                                                         *)
(* The constructor (lines 6-13) is a straight pipeline:                    *)
(*   __calc_daily_returns -> __calc_daily_values -> __my_metric() ->       *)
(*   __sharpe_ratio() -> __compare_metrics -> __get_correlation_coefficient*)
(* Each loop iteration of the two loops the properties talk about (the row *)
(* loop of __calc_daily_returns, the offset loop of __compare_metrics) is  *)
(* one step; every other method is one step.                               *)
(*                                                                         *)
(* Numbers.  Prices are positive integers or NaN.  Every quantity the code *)
(* derives by + - * / is an exact rational <<n, d>> (d > 0, lowest terms). *)
(* A float carries the Python type that decides what a division by zero    *)
(* does: "py" (built-in float/int: x / 0 raises ZeroDivisionError) or "np" *)
(* (numpy.float64, what DataFrame/Series .iloc yields: x / 0 is inf or nan *)
(* with a warning).  x ** 252 and math.sqrt are kept unevaluated (their    *)
(* arguments are stored), since their values are irrational.               *)
(*                                                                         *)
(* Indices are the source's 0-based indices; At(s, i) reads list element i.*)
(***************************************************************************)
EXTENDS Integers, Sequences, FiniteSets, TLC

\* ------------------------------------------------------------------ bounds
MaxPrice == 2        \* prices range over 1..MaxPrice
MaxCells == 6        \* a short price table has at most MaxCells cells
MaxLen == 3          \* length of the series given to the correlation alone
MaxVal == 1          \* those series range over -MaxVal..MaxVal
ProbeWidth == 3      \* a direct ratio call has daysin within ProbeWidth of an end of its range
ShortRun == 200      \* length of the first run of a long price table
LongRun == 600       \* length of the longer second run of a long price table

\* ------------------------------------------------------- exact arithmetic
NaN == 0 - 1

isnan(x) == x = NaN

Abs(x) == IF x < 0 THEN 0 - x ELSE x

RECURSIVE GCD(_, _)
GCD(a, b) == IF b = 0 THEN a ELSE GCD(b, a % b)

Rat(n, d) ==
    LET g == GCD(Abs(n), Abs(d))
        s == IF d < 0 THEN 0 - 1 ELSE 1
    IN  <<(s * n) \div g, (s * d) \div g>>

Zero == <<0, 1>>
One == <<1, 1>>

RatAdd(p, q) ==
    LET g == GCD(p[2], q[2])
        l == (p[2] \div g) * q[2]
    IN  Rat(p[1] * (l \div p[2]) + q[1] * (l \div q[2]), l)

RatNeg(p) == <<0 - p[1], p[2]>>

RatSub(p, q) == RatAdd(p, RatNeg(q))

RatMul(p, q) ==
    LET a == Rat(p[1], q[2])
        b == Rat(q[1], p[2])
    IN  <<a[1] * b[1], a[2] * b[2]>>

\* p / q for q # 0
RatDiv(p, q) == RatMul(p, Rat(q[2], q[1]))

\* ------------------------------------------------------------ Python lists
At(s, i) == s[i + 1]

\* s[0:e] with Python's slice rules: a negative end counts from the back,
\* and the end is clamped to [0, len(s)]
Slice(s, e) ==
    LET n == Len(s)
        e1 == IF e < 0 THEN e + n ELSE e
        e2 == IF e1 < 0 THEN 0 ELSE IF e1 > n THEN n ELSE e1
    IN  SubSeq(s, 1, e2)

\* DataFrame.iloc[i]: a negative i counts from the back; out of range raises
IlocInRange(df, i) == (0 - Len(df)) <= i /\ i < Len(df)

iloc(df, i) == IF i < 0 THEN df[i + Len(df) + 1] ELSE df[i + 1]

RECURSIVE SumRat(_, _, _)
\* sum of the rationals s[lo..hi] (exact, so the order of additions is immaterial)
SumRat(s, lo, hi) ==
    IF lo > hi THEN Zero
    ELSE IF lo = hi THEN s[lo]
    ELSE LET mid == (lo + hi) \div 2
         IN  RatAdd(SumRat(s, lo, mid), SumRat(s, mid + 1, hi))

RECURSIVE MaxInt(_, _, _)
MaxInt(s, lo, hi) ==
    IF lo = hi THEN s[lo]
    ELSE LET mid == (lo + hi) \div 2
             a == MaxInt(s, lo, mid)
             b == MaxInt(s, mid + 1, hi)
         IN  IF a >= b THEN a ELSE b

\* ----------------------------------------------------------- price tables
Cells == {NaN} \cup (1..MaxPrice)

Shapes == { nk \in (1..MaxCells) \X (1..MaxCells) : nk[1] * nk[2] <= MaxCells }

\* every table of n rows and k columns with n * k <= MaxCells
ShortTables == UNION { [1..nk[1] -> [1..nk[2] -> Cells]] : nk \in Shapes }

\* a table whose first a rows equal rowA and whose next b rows equal rowB
TwoRuns(rowA, a, rowB, b) == [i \in 1..(a + b) |-> IF i <= a THEN rowA ELSE rowB]

\* one-column tables of 2 * ShortRun and of ShortRun + LongRun rows
LongTables ==
    { TwoRuns(rowA, ShortRun, rowB, b) :
        rowA \in [1..1 -> Cells], rowB \in [1..1 -> Cells], b \in {ShortRun, LongRun} }

VARIABLES
    portfolio,      \* self.portfolio: rows of cells
    pc,             \* position in __init__
    run,            \* how many times __calc_daily_returns has been entered
    idx,            \* __calc_daily_returns: loop variable idx
    lastValues,     \* __calc_daily_returns: dict seriesIdx -> last price
    dailyReturns,   \* __calc_daily_returns: the list being built
    daily_returns,  \* self.daily_returns
    daily_values,   \* self.daily_values
    myMetric,       \* self.myMetric
    sharpeRatio,    \* self.sharpeRatio
    data,           \* __compare_metrics: the dict of the two lists being built
    calls,          \* history: the ratio calls issued so far, with their outcomes
    rebuilt,        \* what a second call of __calc_daily_returns returned
    probe,          \* a ratio call made on the finished caches, outside __init__
    compareMetrics, \* self.compareMetrics
    correlationCoefficient,  \* self.correlationCoefficient
    raised          \* the exception that ended the run, or "none"

vars == <<portfolio, pc, run, idx, lastValues, dailyReturns, daily_returns,
          daily_values, myMetric, sharpeRatio, data, calls, rebuilt, probe,
          compareMetrics, correlationCoefficient, raised>>

returnsVars == <<run, idx, lastValues, dailyReturns, daily_returns>>
ratioVars == <<myMetric, sharpeRatio, data, calls, rebuilt, probe, compareMetrics,
               correlationCoefficient>>

\* ---------------------------------------------------------------- floats
\* a finite float of Python type ty ("py" or "np") with exact value val
Float(ty, val) == [kind |-> "num", ty |-> ty, val |-> val]

\* ---------------------------------------------- __calc_daily_returns (20-54)
EmptyDict == [k \in {} |-> 0]

\* the dict survives from one call to the next
KeptLastValues(old) == old

\* line 24: lastValues = dict()
NewLastValues(old) == EmptyDict

RECURSIVE SeriesLoopCountAll(_, _, _)
\* every cell of the row is counted, a missing one too
SeriesLoopCountAll(row, seriesIdx, acc) ==
    IF seriesIdx >= Len(row) THEN acc
    ELSE LET cur == At(row, seriesIdx)
         IN  IF isnan(cur)
             THEN SeriesLoopCountAll(row, seriesIdx + 1, [acc EXCEPT !.numCounted = @ + 1])
             ELSE IF seriesIdx \notin DOMAIN acc.lastValues
             THEN SeriesLoopCountAll(row, seriesIdx + 1,
                    [acc EXCEPT !.lastValues = (seriesIdx :> cur) @@ @,
                                !.numCounted = @ + 1])
             ELSE SeriesLoopCountAll(row, seriesIdx + 1,
                    [acc EXCEPT !.lastValues = (seriesIdx :> cur) @@ @,
                                !.totalROC = RatAdd(@, Rat(cur - acc.lastValues[seriesIdx],
                                                           acc.lastValues[seriesIdx])),
                                !.ty = "np",
                                !.numCounted = @ + 1])

RECURSIVE SeriesLoopStale(_, _, _)
\* the base price is never moved forward (line 48 missing)
SeriesLoopStale(row, seriesIdx, acc) ==
    IF seriesIdx >= Len(row) THEN acc
    ELSE LET cur == At(row, seriesIdx)
         IN  IF isnan(cur) THEN SeriesLoopStale(row, seriesIdx + 1, acc)
             ELSE IF seriesIdx \notin DOMAIN acc.lastValues
             THEN SeriesLoopStale(row, seriesIdx + 1,
                    [acc EXCEPT !.lastValues = (seriesIdx :> cur) @@ @,
                                !.numCounted = @ + 1])
             ELSE SeriesLoopStale(row, seriesIdx + 1,
                    [acc EXCEPT !.totalROC = RatAdd(@, Rat(cur - acc.lastValues[seriesIdx],
                                                           acc.lastValues[seriesIdx])),
                                !.ty = "np",
                                !.numCounted = @ + 1])

RECURSIVE SeriesLoop(_, _, _)
\* lines 37-50: the inner loop from seriesIdx on; acc holds lastValues,
\* totalROC (with its Python type) and numCounted
SeriesLoop(row, seriesIdx, acc) ==
    IF seriesIdx >= Len(row) THEN acc
    ELSE LET cur == At(row, seriesIdx)
         IN  IF seriesIdx \notin DOMAIN acc.lastValues
             THEN IF ~isnan(cur)
                  THEN SeriesLoop(row, seriesIdx + 1,
                         [acc EXCEPT !.lastValues = (seriesIdx :> cur) @@ @,
                                     !.numCounted = @ + 1])
                  ELSE SeriesLoop(row, seriesIdx + 1, acc)
             ELSE IF ~isnan(cur)
                  THEN LET prevValue == acc.lastValues[seriesIdx]
                       IN  SeriesLoop(row, seriesIdx + 1,
                             [acc EXCEPT !.lastValues = (seriesIdx :> cur) @@ @,
                                         !.totalROC = RatAdd(@, Rat(cur - prevValue, prevValue)),
                                         !.ty = "np",
                                         !.numCounted = @ + 1])
                  ELSE SeriesLoop(row, seriesIdx + 1, acc)

\* lines 28-50 for one row: totalROC = 0 and numCounted = 0 are Python ints
RowPass(row, lv) ==
    SeriesLoop(row, 0, [lastValues |-> lv, totalROC |-> Zero, ty |-> "py", numCounted |-> 0])

\* a row without any percent change yields nan instead of 0 / numCounted
RowReturnNan(acc) ==
    IF acc.ty = "py" THEN [kind |-> "nan", ty |-> "py", val |-> Zero]
    ELSE Float(acc.ty, RatDiv(acc.totalROC, <<acc.numCounted, 1>>))

\* line 52: totalROC / numCounted
RowReturn(acc) == Float(acc.ty, RatDiv(acc.totalROC, <<acc.numCounted, 1>>))

\* --------------------------------------------- __calc_daily_values (60-61)
RECURSIVE RowSum(_, _)
\* DataFrame.sum(axis=1) skips NaN cells
RowSum(row, seriesIdx) ==
    IF seriesIdx >= Len(row) THEN 0
    ELSE (IF isnan(At(row, seriesIdx)) THEN 0 ELSE At(row, seriesIdx))
         + RowSum(row, seriesIdx + 1)

calc_daily_values_list == [i \in 1..Len(portfolio) |-> RowSum(portfolio[i], 0)]

\* ------------------------------------------------ shared by the two ratios
TradingDays == 252
RiskFreeNum == 426
RiskFreeDen == 10000
RangeStart == 1
RangeStop == 800
RangeStep == 15

\* 0.0426 / 252 * adjustedScale
riskFreeReturnRate(adjustedScale) == Rat(RiskFreeNum * adjustedScale, RiskFreeDen * TradingDays)

None == [kind |-> "none"]
Inf == [kind |-> "inf", ty |-> "np"]
NanValue == [kind |-> "nan", ty |-> "np"]

\* the outcome of a call that raised exc
Raise(exc) == [raised |-> exc, value |-> None]

AnyNp(s) == \E i \in 1..Len(s) : s[i].ty = "np"

RECURSIVE SumVal(_, _, _)
\* sum of the values of the floats s[lo..hi]
SumVal(s, lo, hi) ==
    IF lo > hi THEN Zero
    ELSE IF lo = hi THEN s[lo].val
    ELSE LET mid == (lo + hi) \div 2
         IN  RatAdd(SumVal(s, lo, mid), SumVal(s, mid + 1, hi))

\* sum(l) / len(l) for a non-empty list of floats
Mean(l) == Float(IF AnyNp(l) THEN "np" ELSE "py",
                 RatDiv(SumVal(l, 1, Len(l)), <<Len(l), 1>>))

\* ((1 + avgDailyRet) ** adjustedScale) - 1, unevaluated
Compound(avgDailyRet, adjustedScale) ==
    [form |-> "compound", ty |-> avgDailyRet.ty, avg |-> avgDailyRet.val, exp |-> adjustedScale]

\* returns - riskFreeReturnRate = 0.  (1 + avg) ** e = 1 + rf has no rational
\* solution avg for e = 252 (1.0426 = 5213/5000 is no 252nd power of a
\* rational); e = 0 and e = 1 are decided exactly.
ExcessIsZero(returns, rf) ==
    IF returns.form = "direct" THEN returns.val = rf
    ELSE \/ returns.exp = 0 /\ rf = Zero
         \/ returns.exp = 1 /\ returns.avg = rf

\* every zero divide gives inf or nan, whatever the type of the numerator
DivideNumpy(returns, rf, den, denIsZero) ==
    [raised |-> "none",
     value |-> IF denIsZero
               THEN (IF ExcessIsZero(returns, rf) THEN NanValue ELSE Inf)
               ELSE [kind |-> "num", ty |-> returns.ty,
                     num |-> [returns |-> returns, rf |-> rf], den |-> den]]

\* numerator / denominator, the denominator a Python float: zero divides
\* raise for a Python numerator and give inf or nan for a numpy one
Divide(returns, rf, den, denIsZero) ==
    IF denIsZero
    THEN IF returns.ty = "py" THEN Raise("ZeroDivisionError")
         ELSE [raised |-> "none",
               value |-> IF ExcessIsZero(returns, rf) THEN NanValue ELSE Inf]
    ELSE [raised |-> "none",
          value |-> [kind |-> "num", ty |-> returns.ty,
                     num |-> [returns |-> returns, rf |-> rf], den |-> den]]

\* ------------------------------------------------------ __my_metric (72-125)
\* the caller's scale is used (line 73 missing)
KeptScale(adjustedScale) == adjustedScale

\* line 73: adjustedScale = 252
ForcedScale(adjustedScale) == TradingDays

\* line 78
BurkeRatioIdx(daysin) == Len(portfolio) - 1 - daysin

\* < instead of <=
EnoughDataStrict(adjustedScale, burkeRatioIdx) == adjustedScale < burkeRatioIdx + 1

\* line 82
EnoughData(adjustedScale, burkeRatioIdx) == adjustedScale <= burkeRatioIdx + 1

\* line 84
InitDateIdx(burkeRatioIdx, adjustedScale) == burkeRatioIdx - adjustedScale + 1

RECURSIVE WindowLoop(_, _, _, _)
\* lines 90-93 from seriesIdx on
WindowLoop(targetDate, initialDate, seriesIdx, acc) ==
    IF seriesIdx >= Len(initialDate) THEN acc
    ELSE IF ~(isnan(At(targetDate, seriesIdx)) \/ isnan(At(initialDate, seriesIdx)))
         THEN WindowLoop(targetDate, initialDate, seriesIdx + 1,
                [numCounted |-> acc.numCounted + 1,
                 cumReturns |-> RatAdd(acc.cumReturns,
                                  Rat(At(targetDate, seriesIdx) - At(initialDate, seriesIdx),
                                      At(initialDate, seriesIdx)))])
         ELSE WindowLoop(targetDate, initialDate, seriesIdx + 1, acc)

\* line 100
BurkeDailyRets(burkeRatioIdx) == Slice(daily_returns, burkeRatioIdx + 1)

\* line 114
SumValues(burkeRatioIdx) == Slice(daily_values, burkeRatioIdx + 1)

\* lines 118-119 summed (the argument of math.sqrt in line 122)
SumDrawdowns2(sumValues, maximum) ==
    LET d2 == [i \in 1..Len(sumValues) |->
                 LET d == Rat(sumValues[i] - maximum, maximum) IN RatMul(d, d)]
    IN  SumRat(d2, 1, Len(d2))

\* lines 108-125, given the period return of lines 82-106
BurkeTail(returns, rf, burkeRatioIdx) ==
    LET sumValues == SumValues(burkeRatioIdx)
        maximum == MaxInt(sumValues, 1, Len(sumValues))
    IN  IF maximum = 0 THEN Raise("ZeroDivisionError")
        ELSE LET s2 == SumDrawdowns2(sumValues, maximum)
             IN  Divide(returns, rf, [sqrt |-> s2, times |-> 1], s2 = Zero)

\* the locals of a call that the properties read, with its outcome
BurkeCall(out, branch, burkeRatioIdx, initDateIdx, numCounted, returns) ==
    [raised |-> out.raised, value |-> out.value, branch |-> branch,
     burkeRatioIdx |-> burkeRatioIdx, initDateIdx |-> initDateIdx,
     numCounted |-> numCounted, returns |-> returns,
     sumValues |-> IF returns = None THEN <<>> ELSE SumValues(burkeRatioIdx)]

my_metric(daysin, adjustedScaleArg) ==
    LET adjustedScale == ForcedScale(adjustedScaleArg)
        rf == riskFreeReturnRate(adjustedScale)
        burkeRatioIdx == BurkeRatioIdx(daysin)
    IN  IF ~IlocInRange(portfolio, burkeRatioIdx)
        THEN BurkeCall(Raise("IndexError"), "none", burkeRatioIdx, NaN, NaN, None)
        ELSE IF EnoughData(adjustedScale, burkeRatioIdx)
        THEN LET initDateIdx == InitDateIdx(burkeRatioIdx, adjustedScale)
             IN  IF ~IlocInRange(portfolio, initDateIdx)
                 THEN BurkeCall(Raise("IndexError"), "direct", burkeRatioIdx, initDateIdx, NaN, None)
                 ELSE LET acc == WindowLoop(iloc(portfolio, burkeRatioIdx),
                                            iloc(portfolio, initDateIdx), 0,
                                            [numCounted |-> 0, cumReturns |-> Zero])
                      IN  IF acc.numCounted = 0
                          THEN \* int 0 / int 0
                               BurkeCall(Raise("ZeroDivisionError"), "direct", burkeRatioIdx,
                                         initDateIdx, 0, None)
                          ELSE LET returns == [form |-> "direct", ty |-> "np",
                                               val |-> RatDiv(acc.cumReturns, <<acc.numCounted, 1>>)]
                               IN  BurkeCall(BurkeTail(returns, rf, burkeRatioIdx), "direct",
                                             burkeRatioIdx, initDateIdx, acc.numCounted, returns)
        ELSE LET relevantDailyRets == BurkeDailyRets(burkeRatioIdx)
             IN  IF Len(relevantDailyRets) = 0
                 THEN BurkeCall(Raise("ZeroDivisionError"), "fallback", burkeRatioIdx, NaN, NaN, None)
                 ELSE LET returns == Compound(Mean(relevantDailyRets), adjustedScale)
                      IN  BurkeCall(BurkeTail(returns, rf, burkeRatioIdx), "fallback",
                                    burkeRatioIdx, NaN, NaN, returns)

\* -------------------------------------------------- __sharpe_ratio (137-159)
\* line 147
SharpeDailyRets(daysin) == Slice(daily_returns, Len(daily_returns) - daysin)

\* line 154
SumDiff2(relevantDailyRets, avgDailyRet) ==
    LET d2 == [i \in 1..Len(relevantDailyRets) |->
                 LET d == RatSub(relevantDailyRets[i].val, avgDailyRet.val) IN RatMul(d, d)]
    IN  SumRat(d2, 1, Len(d2))

sharpe_ratio(daysin, adjustedScale) ==
    LET rf == riskFreeReturnRate(adjustedScale)
        relevantDailyRets == SharpeDailyRets(daysin)
    IN  IF Len(relevantDailyRets) = 0
        THEN [raised |-> "ZeroDivisionError", value |-> None, relevantDailyRets |-> <<>>]
        ELSE LET avgDailyRet == Mean(relevantDailyRets)
                 avgPeriodRet == Compound(avgDailyRet, adjustedScale)
                 variance == RatDiv(SumDiff2(relevantDailyRets, avgDailyRet),
                                    <<Len(relevantDailyRets), 1>>)
                 out == Divide(avgPeriodRet, rf, [sqrt |-> variance, times |-> adjustedScale],
                               variance = Zero \/ adjustedScale = 0)
             IN  [raised |-> out.raised, value |-> out.value,
                  relevantDailyRets |-> relevantDailyRets]

\* ------------------------------------------------ __compare_metrics (166-178)
\* range(start, stop, step) for step > 0, as a list
Range(start, stop, step) ==
    [j \in 1..((stop - start + step - 1) \div step) |-> start + (j - 1) * step]

\* the sweep runs past offset 799
numGenerateWide == Range(RangeStart, RangeStop + 2 * RangeStep, RangeStep)

\* the sweep starts at offset 0
numGenerateFromZero == Range(0, RangeStop, RangeStep)

\* line 167
numGenerate == Range(RangeStart, RangeStop, RangeStep)

\* ------------------------------------ __get_correlation_coefficient (185-204)
\* sumdX2 twice
SqrtArgSame(sumdX2, sumdY2) == RatMul(sumdX2, sumdX2)

\* line 203: the argument of math.sqrt
SqrtArg(sumdX2, sumdY2) == RatMul(sumdX2, sumdY2)

Exact(l) == \A i \in 1..Len(l) : l[i].kind = "num" /\ "val" \in DOMAIN l[i]

Finite(l) == \A i \in 1..Len(l) : l[i].kind = "num"

\* lines 192-204 for two columns of the same non-zero length.  Columns of
\* exactly known values give r as its sign and its square (math.sqrt is not
\* evaluated); a nan or inf anywhere makes every running sum nan; the ratios
\* the sweep produces are kept unevaluated.
get_correlation_coefficient(xValues, yValues) ==
    IF ~(Finite(xValues) /\ Finite(yValues)) THEN NanValue
    ELSE IF ~(Exact(xValues) /\ Exact(yValues))
    THEN [kind |-> "num", ty |-> "np", form |-> "pearson"]
    ELSE LET n == Len(xValues)
             averageX == RatDiv(SumVal(xValues, 1, n), <<n, 1>>)
             averageY == RatDiv(SumVal(yValues, 1, n), <<n, 1>>)
             dX == [i \in 1..n |-> RatSub(xValues[i].val, averageX)]
             dY == [i \in 1..n |-> RatSub(yValues[i].val, averageY)]
             sumdXdY == SumRat([i \in 1..n |-> RatMul(dX[i], dY[i])], 1, n)
             sumdX2 == SumRat([i \in 1..n |-> RatMul(dX[i], dX[i])], 1, n)
             sumdY2 == SumRat([i \in 1..n |-> RatMul(dY[i], dY[i])], 1, n)
             prod == SqrtArg(sumdX2, sumdY2)
         IN  IF prod = Zero
             THEN (IF sumdXdY = Zero THEN NanValue ELSE Inf)
             ELSE [kind |-> "num", ty |-> "np",
                   sign |-> IF sumdXdY[1] > 0 THEN 1 ELSE IF sumdXdY[1] < 0 THEN 0 - 1 ELSE 0,
                   square |-> RatDiv(RatMul(sumdXdY, sumdXdY), prod)]

\* ------------------------------------------------------------- __init__ (6-13)
Blank ==
    /\ pc = "init"
    /\ run = 0
    /\ idx = 0
    /\ lastValues = EmptyDict
    /\ dailyReturns = <<>>
    /\ daily_returns = <<>>
    /\ daily_values = <<>>
    /\ myMetric = None
    /\ sharpeRatio = None
    /\ data = [Sharpe |-> <<>>, Burke |-> <<>>]
    /\ calls = <<>>
    /\ rebuilt = <<>>
    /\ probe = None
    /\ compareMetrics = None
    /\ correlationCoefficient = None
    /\ raised = "none"

\* line 7: the price table is loaded
Init == portfolio \in ShortTables \cup LongTables /\ Blank

\* line 8 calling line 20: lines 22-24
calc_daily_returns_enter ==
    /\ pc = "init"
    /\ pc' = "calc_daily_returns"
    /\ run' = run + 1
    /\ idx' = 0
    /\ dailyReturns' = <<>>
    /\ lastValues' = NewLastValues(lastValues)
    /\ UNCHANGED <<portfolio, daily_returns, daily_values, raised>>
    /\ UNCHANGED ratioVars

\* lines 27-52: one iteration of the row loop
calc_daily_returns_row ==
    /\ pc = "calc_daily_returns"
    /\ raised = "none"
    /\ idx < Len(portfolio)
    /\ LET acc == RowPass(iloc(portfolio, idx), lastValues)
       IN  IF acc.numCounted = 0
           THEN \* int 0 / int 0
                /\ raised' = "ZeroDivisionError"
                /\ UNCHANGED <<idx, lastValues, dailyReturns>>
           ELSE /\ dailyReturns' = Append(dailyReturns, RowReturn(acc))
                /\ lastValues' = acc.lastValues
                /\ idx' = idx + 1
                /\ UNCHANGED raised
    /\ UNCHANGED <<portfolio, pc, run, daily_returns, daily_values>>
    /\ UNCHANGED ratioVars

\* line 54, and the assignment of line 8 (of the caller, for a second call)
calc_daily_returns_return ==
    /\ pc = "calc_daily_returns"
    /\ raised = "none"
    /\ idx = Len(portfolio)
    /\ IF run = 1
       THEN daily_returns' = dailyReturns /\ pc' = "calc_daily_values" /\ UNCHANGED rebuilt
       ELSE rebuilt' = dailyReturns /\ pc' = "rebuilt" /\ UNCHANGED daily_returns
    /\ UNCHANGED <<portfolio, run, idx, lastValues, dailyReturns, daily_values, raised>>
    /\ UNCHANGED <<myMetric, sharpeRatio, data, calls, probe, compareMetrics,
                   correlationCoefficient>>

\* __calc_daily_returns is called once more on the same table, after the
\* constructor has finished or has raised past line 8
calc_daily_returns_again ==
    /\ run = 1
    /\ \/ pc = "done"
       \/ raised # "none" /\ pc \in {"my_metric", "sharpe_ratio", "compare_metrics"}
    /\ pc' = "calc_daily_returns"
    /\ raised' = "none"
    /\ run' = run + 1
    /\ idx' = 0
    /\ dailyReturns' = <<>>
    /\ lastValues' = NewLastValues(lastValues)
    /\ UNCHANGED <<portfolio, daily_returns, daily_values>>
    /\ UNCHANGED ratioVars

\* line 9
calc_daily_values ==
    /\ pc = "calc_daily_values"
    /\ daily_values' = calc_daily_values_list
    /\ pc' = "my_metric"
    /\ UNCHANGED <<portfolio, raised>>
    /\ UNCHANGED returnsVars
    /\ UNCHANGED ratioVars

Logged(name, daysin, out) ==
    [name |-> name, daysin |-> daysin, raised |-> out.raised, value |-> out.value]

\* line 10: self.__my_metric()
init_my_metric ==
    /\ pc = "my_metric"
    /\ raised = "none"
    /\ LET out == my_metric(0, TradingDays)
       IN  /\ calls' = Append(calls, Logged("my_metric", 0, out))
           /\ raised' = out.raised
           /\ IF out.raised # "none"
              THEN UNCHANGED <<pc, myMetric>>
              ELSE pc' = "sharpe_ratio" /\ myMetric' = out.value
    /\ UNCHANGED <<portfolio, daily_values, sharpeRatio, data, rebuilt, probe,
                   compareMetrics, correlationCoefficient>>
    /\ UNCHANGED returnsVars

\* line 11: self.__sharpe_ratio()
init_sharpe_ratio ==
    /\ pc = "sharpe_ratio"
    /\ raised = "none"
    /\ LET out == sharpe_ratio(0, TradingDays)
       IN  /\ calls' = Append(calls, Logged("sharpe_ratio", 0, out))
           /\ raised' = out.raised
           /\ IF out.raised # "none"
              THEN UNCHANGED <<pc, sharpeRatio>>
              ELSE pc' = "compare_metrics" /\ sharpeRatio' = out.value
    /\ UNCHANGED <<portfolio, daily_values, myMetric, data, rebuilt, probe,
                   compareMetrics, correlationCoefficient>>
    /\ UNCHANGED returnsVars

\* lines 174-176: one iteration of the offset loop
compare_metrics_step ==
    /\ pc = "compare_metrics"
    /\ raised = "none"
    /\ Len(data.Burke) < Len(numGenerate)
    /\ LET i == numGenerate[Len(data.Burke) + 1]
           s == sharpe_ratio(i, TradingDays)
       IN  IF s.raised # "none"
           THEN /\ calls' = Append(calls, Logged("sharpe_ratio", i, s))
                /\ raised' = s.raised
                /\ UNCHANGED data
           ELSE LET b == my_metric(i, TradingDays)
                IN  /\ calls' = calls \o <<Logged("sharpe_ratio", i, s),
                                            Logged("my_metric", i, b)>>
                    /\ raised' = b.raised
                    /\ IF b.raised # "none"
                       THEN data' = [data EXCEPT !.Sharpe = Append(@, s.value)]
                       ELSE data' = [Sharpe |-> Append(data.Sharpe, s.value),
                                     Burke |-> Append(data.Burke, b.value)]
    /\ UNCHANGED <<portfolio, pc, daily_values, myMetric, sharpeRatio, rebuilt, probe,
                   compareMetrics, correlationCoefficient>>
    /\ UNCHANGED returnsVars

\* line 178 and the assignment of line 12
compare_metrics_return ==
    /\ pc = "compare_metrics"
    /\ raised = "none"
    /\ Len(data.Burke) = Len(numGenerate)
    /\ compareMetrics' = [index |-> numGenerate, Sharpe |-> data.Sharpe, Burke |-> data.Burke]
    /\ pc' = "get_correlation_coefficient"
    /\ UNCHANGED <<portfolio, daily_values, myMetric, sharpeRatio, data, calls, rebuilt,
                   probe, correlationCoefficient, raised>>
    /\ UNCHANGED returnsVars

\* line 13
init_correlation ==
    /\ pc = "get_correlation_coefficient"
    /\ correlationCoefficient' =
          get_correlation_coefficient(compareMetrics.Sharpe, compareMetrics.Burke)
    /\ pc' = "done"
    /\ UNCHANGED <<portfolio, daily_values, myMetric, sharpeRatio, data, calls, rebuilt,
                   probe, compareMetrics, raised>>
    /\ UNCHANGED returnsVars

Next ==
    \/ calc_daily_returns_enter
    \/ calc_daily_returns_row
    \/ calc_daily_returns_return
    \/ calc_daily_returns_again
    \/ calc_daily_values
    \/ init_my_metric
    \/ init_sharpe_ratio
    \/ compare_metrics_step
    \/ compare_metrics_return
    \/ init_correlation

Spec == Init /\ [][Next]_vars

\* ------------------------------------------- the two ratios called directly
\* tables of 1 + 252 rows: the shortest on which both branches of line 82 occur
MidTables ==
    { TwoRuns(rowA, 1, rowB, TradingDays) :
        rowA \in [1..1 -> Cells] \cup [1..2 -> Cells],
        rowB \in [1..1 -> Cells] \cup [1..2 -> Cells] }

Scales == {1, TradingDays, TradingDays + 1}

InitRatio ==
    /\ portfolio \in { t \in ShortTables \cup MidTables :
                         \A i \in 1..Len(t) : Len(t[i]) = Len(t[1]) }
    /\ Blank

\* the offsets in [0, lastRowIndex] near either end (both branches of line 82
\* and the shortest prefixes lie there)
ProbeDays ==
    { d \in 0..(Len(portfolio) - 1) : d <= ProbeWidth \/ d >= Len(portfolio) - 1 - ProbeWidth }

\* a caller invokes both ratios for one daysin on the caches of lines 8-9
call_ratios ==
    /\ pc = "my_metric"
    /\ \E daysin \in ProbeDays, adjustedScale \in Scales :
          probe' = [daysin |-> daysin, adjustedScale |-> adjustedScale,
                    burke |-> my_metric(daysin, adjustedScale),
                    burkeDefault |-> my_metric(daysin, TradingDays),
                    sharpe |-> sharpe_ratio(daysin, TradingDays)]
    /\ pc' = "probed"
    /\ UNCHANGED <<portfolio, daily_values, myMetric, sharpeRatio, data, calls, rebuilt,
                   compareMetrics, correlationCoefficient, raised>>
    /\ UNCHANGED returnsVars

NextRatio ==
    \/ calc_daily_returns_enter
    \/ calc_daily_returns_row
    \/ calc_daily_returns_return
    \/ calc_daily_values
    \/ call_ratios

SpecRatio == InitRatio /\ [][NextRatio]_vars

\* --------------------------------------------- the correlation on its own
Series(n) == [1..n -> { Float("np", <<v, 1>>) : v \in (0 - MaxVal)..MaxVal }]

\* line 12 has stored two columns of n exactly known values
InitCorr ==
    /\ \E n \in 1..MaxLen :
          \E xValues \in Series(n), yValues \in Series(n) :
             compareMetrics = [index |-> Range(RangeStart, RangeStart + n * RangeStep, RangeStep),
                               Sharpe |-> xValues, Burke |-> yValues]
    /\ portfolio = <<>>
    /\ pc = "get_correlation_coefficient"
    /\ run = 0
    /\ idx = 0
    /\ lastValues = EmptyDict
    /\ dailyReturns = <<>>
    /\ daily_returns = <<>>
    /\ daily_values = <<>>
    /\ myMetric = None
    /\ sharpeRatio = None
    /\ data = [Sharpe |-> <<>>, Burke |-> <<>>]
    /\ calls = <<>>
    /\ rebuilt = <<>>
    /\ probe = None
    /\ correlationCoefficient = None
    /\ raised = "none"

NextCorr == init_correlation

SpecCorr == InitCorr /\ [][NextCorr]_vars


\* =================================================================== properties
\* What the table itself says, independently of the pass.

NumRows == Len(portfolio)
Assets == 0..(Len(portfolio[1]) - 1)
Cell(a, i) == portfolio[i + 1][a + 1]
Observed(a, i) == ~isnan(Cell(a, i))
HasPrior(a, i) == \E j \in 0..(i - 1) : Observed(a, j)

\* the last row <= i in which asset a is observed
LastObservedRow(a, i) ==
    CHOOSE j \in 0..i : Observed(a, j) /\ \A k \in (j + 1)..i : ~Observed(a, k)

\* the assets with an observed price in row i / with a prior one as well
Seen(i) == { a \in Assets : Observed(a, i) }
Both(i) == { a \in Seen(i) : HasPrior(a, i) }

\* the percent change of asset a in row i against its most recent observed price
PctChange(a, i) ==
    LET prior == Cell(a, LastObservedRow(a, i - 1))
    IN  Rat(Cell(a, i) - prior, prior)

\* the sum of the percent changes of row i
PctSum(i) ==
    LET k == Len(portfolio[1])
    IN  SumRat([a \in 1..k |-> IF (a - 1) \in Both(i) THEN PctChange(a - 1, i) ELSE Zero], 1, k)

\* the pass is at work or has finished, and row idx - 1 is the last one it processed
RowDone == pc = "calc_daily_returns" /\ idx >= 1

\* C1 (as claimed): the DailyReturn of a row is the sum of its percent changes
\* divided by the number of assets that have both a prior and a current
\* observed price; an asset first observed in the row is not counted.
C1_CountsOnlyChanged ==
    (RowDone /\ Both(idx - 1) # {}) =>
        dailyReturns[idx].val =
            RatDiv(PctSum(idx - 1), <<Cardinality(Both(idx - 1)), 1>>)

\* C1 (amended): the DailyReturn of a row is the sum of its percent changes
\* divided by the number of assets observed in that row; an asset first
\* observed in the row becomes its last observed price, adds nothing to the
\* sum and is counted in the divisor.
C1_CountsEveryObserved ==
    RowDone =>
        /\ Seen(idx - 1) # {}
        /\ dailyReturns[idx].val =
              RatDiv(PctSum(idx - 1), <<Cardinality(Seen(idx - 1)), 1>>)
        /\ \A a \in Seen(idx - 1) \ Both(idx - 1) : lastValues[a] = Cell(a, idx - 1)

\* a row with one asset that changes and one that is first observed
C1_Witness ==
    /\ RowDone
    /\ Both(idx - 1) # {}
    /\ Seen(idx - 1) \ Both(idx - 1) # {}
    /\ dailyReturns[idx].val # Zero

\* C2 (as claimed): a row in which no asset has both a prior and a current
\* observed price gets a nan entry, never 0, and the pass goes on.
C2_NanEntry ==
    /\ (RowDone /\ Both(idx - 1) = {}) => dailyReturns[idx].kind = "nan"
    /\ ~(pc = "calc_daily_returns" /\ raised # "none")

\* C2 (amended): such a row gets the entry 0 (a plain 0.0) when some asset is
\* observed in it for the first time; when no asset is observed in it the
\* division 0 / 0 raises ZeroDivisionError and the pass ends without a
\* result.  A pass that returns has one entry per row.
C2_ZeroOrRaise ==
    /\ (RowDone /\ Both(idx - 1) = {}) =>
          Seen(idx - 1) # {} /\ dailyReturns[idx] = Float("py", Zero)
    /\ (pc = "calc_daily_returns" /\ raised # "none") =>
          /\ raised = "ZeroDivisionError"
          /\ Seen(idx) = {}
          /\ Len(dailyReturns) = idx
          /\ (run = 1 => daily_returns = <<>>)
    /\ (pc = "calc_daily_returns" /\ raised = "none" /\ idx < NumRows) =>
          (Seen(idx) = {} <=> RowPass(iloc(portfolio, idx), lastValues).numCounted = 0)
    /\ pc = "calc_daily_returns" => Len(dailyReturns) = idx
    /\ pc \notin {"init", "calc_daily_returns"} => Len(daily_returns) = NumRows

\* the first row got the entry 0 and a later row without any price raised
C2_Witness ==
    /\ pc = "calc_daily_returns"
    /\ raised = "ZeroDivisionError"
    /\ idx >= 1
    /\ dailyReturns[1] = Float("py", Zero)

\* ---- the ratio calls of the constructor
LastRowIndex == NumRows - 1
InRange(daysin) == 0 <= daysin /\ daysin <= LastRowIndex

\* every DailyValue in rows [0, t] equals the peak
ConstantValues(t) == \A i \in 1..(t + 1) : daily_values[i] = daily_values[1]

\* the DailyReturn prefix [0, t] has zero variance
ZeroVariance(t) == \A i \in 1..(t + 1) : daily_returns[i].val = daily_returns[1].val

\* no row of [0, t] holds a percent change: every entry is the 0.0 of 0 / count
NoChangeYet(t) == \A i \in 1..(t + 1) : daily_returns[i].ty = "py"

WindowAssets(t) == { a \in Assets : Observed(a, t) /\ Observed(a, t - TradingDays + 1) }

\* the call c has a zero denominator (and, for the Burke ratio, a period return)
ZeroDenominator(c) ==
    LET t == LastRowIndex - c.daysin
    IN  /\ InRange(c.daysin)
        /\ IF c.name = "my_metric"
           THEN ConstantValues(t) /\ (TradingDays <= t + 1 => WindowAssets(t) # {})
           ELSE ZeroVariance(t)

\* its numerator is a plain Python float
PlainNumerator(c) ==
    LET t == LastRowIndex - c.daysin
    IN  NoChangeYet(t) /\ ~(c.name = "my_metric" /\ TradingDays <= t + 1)

NonFinite(c) == c.raised = "none" /\ c.value.kind \in {"inf", "nan"}

\* the calls the last step of the constructor made
LastCalls ==
    IF run # 1 \/ pc \notin {"my_metric", "sharpe_ratio", "compare_metrics"} THEN {}
    ELSE { calls[j] : j \in { j \in 1..Len(calls) : j >= Len(calls) - 1 } }

C4_AlwaysInRange == \A j \in 1..Len(calls) : InRange(calls[j].daysin)

\* C4 (amended): every ratio call of the constructor has daysin in
\* [0, lastRowIndex] when the table has at least 797 rows.
C4_InRangeFrom797Rows == NumRows >= 797 => C4_AlwaysInRange

\* the whole sweep has run on such a table
C4_Witness ==
    /\ NumRows >= 797
    /\ Len(calls) = 110
    /\ calls[110].daysin = 796
    /\ calls[110].raised = "none"

\* C5: the sweep returns 54 entries indexed 1, 16, ..., 796 in this order,
\* and the entry at index k holds sharpe_ratio(k) and my_metric(k).
C5_SweepTable ==
    /\ Len(data.Burke) <= Len(data.Sharpe)
    /\ Len(data.Sharpe) <= Len(data.Burke) + 1
    /\ compareMetrics # None =>
          /\ Len(compareMetrics.index) = 54
          /\ Len(compareMetrics.Sharpe) = 54
          /\ Len(compareMetrics.Burke) = 54
          /\ \A j \in 1..54 :
                /\ compareMetrics.index[j] = 1 + 15 * (j - 1)
                /\ compareMetrics.index[j] < 800
    /\ pc = "get_correlation_coefficient" =>
          \A j \in 1..Len(compareMetrics.index) :
             /\ compareMetrics.Sharpe[j] =
                   sharpe_ratio(compareMetrics.index[j], TradingDays).value
             /\ compareMetrics.Burke[j] =
                   my_metric(compareMetrics.index[j], TradingDays).value

\* the sweep has returned on a table of 797 rows or more, with finite first
\* entries that differ from the next
C5_Witness ==
    /\ pc = "get_correlation_coefficient"
    /\ NumRows >= 797
    /\ compareMetrics.index[54] = 796
    /\ compareMetrics.Sharpe[1].kind = "num"
    /\ compareMetrics.Burke[1].kind = "num"
    /\ compareMetrics.Sharpe[1] # compareMetrics.Sharpe[2]
    /\ compareMetrics.Burke[1] # compareMetrics.Burke[2]

C7_RebuildSame ==
    [][ /\ portfolio' = portfolio
        /\ (run' # run => lastValues' = EmptyDict)
        /\ (pc' = "rebuilt" => rebuilt' = daily_returns') ]_vars

\* the second run has returned, after ratio calls, on a table with a change
C7_Witness ==
    /\ pc = "rebuilt"
    /\ run = 2
    /\ Len(calls) >= 2
    /\ \E i \in 1..Len(rebuilt) : rebuilt[i].val # Zero

\* ---- the correlation
Constant(l) == \A i \in 1..Len(l) : l[i] = l[1]
Negated(l) == [i \in 1..Len(l) |-> Float(l[i].ty, RatNeg(l[i].val))]
IsOne(r) == r.kind = "num" /\ r.sign = 1 /\ r.square = One
IsMinusOne(r) == r.kind = "num" /\ r.sign = 0 - 1 /\ r.square = One

\* C8: two identical non-constant series give r = 1, a non-constant series
\* and its negation give r = -1, and a constant series on either side gives
\* no number (0 / 0: nan).
C8_Correlation ==
    pc = "done" =>
        LET x == compareMetrics.Sharpe
            y == compareMetrics.Burke
            r == correlationCoefficient
        IN  /\ (~Constant(x) /\ y = x) => IsOne(r)
            /\ (~Constant(x) /\ y = Negated(x)) => IsMinusOne(r)
            /\ (Constant(x) \/ Constant(y)) => r.kind = "nan"
            /\ (~Constant(x) /\ ~Constant(y)) => r.kind = "num"

\* a non-constant series against its negation
C8_Witness ==
    /\ pc = "done"
    /\ ~Constant(compareMetrics.Sharpe)
    /\ compareMetrics.Burke = Negated(compareMetrics.Sharpe)
    /\ IsMinusOne(correlationCoefficient)

\* ---- the branches of my_metric
WindowSum(t) ==
    LET k == Len(portfolio[1])
        init == t - TradingDays + 1
    IN  SumRat([a \in 1..k |->
                  IF (a - 1) \in WindowAssets(t)
                  THEN Rat(Cell(a - 1, t) - Cell(a - 1, init), Cell(a - 1, init))
                  ELSE Zero], 1, k)

\* C9: for daysin in [0, lastRowIndex], with t = lastRowIndex - daysin,
\* my_metric takes the direct-window branch iff 252 <= t + 1; there the
\* initial row is t - 251, within [0, t], and exactly the assets observed in
\* both rows are counted; otherwise it compounds the mean of DailyReturn over
\* rows [0, t].  Either way the drawdowns range over DailyValue rows [0, t],
\* the rows of the Sharpe prefix for the same daysin.
C9_Branches ==
    probe # None =>
        LET t == LastRowIndex - probe.daysin
            b == probe.burkeDefault
        IN  /\ b.branch \in {"direct", "fallback"}
            /\ b.branch = "direct" <=> 252 <= t + 1
            /\ b.burkeRatioIdx = t
            /\ b.branch = "direct" =>
                  /\ b.initDateIdx = t - 251
                  /\ 0 <= b.initDateIdx /\ b.initDateIdx <= t
                  /\ b.numCounted = Cardinality(WindowAssets(t))
                  /\ b.numCounted = 0 <=> b.returns = None
                  /\ b.numCounted > 0 =>
                        b.returns = [form |-> "direct", ty |-> "np",
                                     val |-> RatDiv(WindowSum(t), <<b.numCounted, 1>>)]
            /\ b.branch = "fallback" =>
                  /\ b.returns.form = "compound"
                  /\ b.returns.exp = 252
                  /\ b.returns.avg =
                        RatDiv(SumVal(daily_returns, 1, t + 1), <<t + 1, 1>>)
            /\ b.returns # None => b.sumValues = SubSeq(daily_values, 1, t + 1)
            /\ probe.sharpe.relevantDailyRets = SubSeq(daily_returns, 1, t + 1)

\* a direct-window call at the boundary 252 = t + 1 that leaves one asset out
C9_Witness ==
    /\ probe # None
    /\ probe.burkeDefault.branch = "direct"
    /\ probe.burkeDefault.burkeRatioIdx = 251
    /\ probe.burkeDefault.numCounted = 1
    /\ Cardinality(Assets) = 2
    /\ probe.burkeDefault.raised = "none"

\* C10: after rows 0..idx-1 of the pass, the map holds for each asset its
\* most recent observed price among those rows, and no entry iff the asset has
\* none; the percent changes summed in a row are taken against those prices;
\* on a table without missing cells the entry of a row i > 0 is the mean over
\* all assets of the percent change from row i - 1 to row i.
C10_LastObserved ==
    (run >= 1 /\ NumRows > 0) =>
        /\ \A a \in Assets :
              /\ a \in DOMAIN lastValues <=> HasPrior(a, idx)
              /\ HasPrior(a, idx) => lastValues[a] = Cell(a, LastObservedRow(a, idx - 1))
        /\ RowDone =>
              RatMul(dailyReturns[idx].val, <<Cardinality(Seen(idx - 1)), 1>>) = PctSum(idx - 1)
        /\ (RowDone /\ idx >= 2 /\ \A i \in 0..(idx - 1) : Seen(i) = Assets) =>
              LET k == Len(portfolio[1])
                  i == idx - 1
              IN  dailyReturns[idx].val =
                     RatDiv(SumRat([a \in 1..k |->
                                      Rat(Cell(a - 1, i) - Cell(a - 1, i - 1), Cell(a - 1, i - 1))],
                                   1, k),
                            <<k, 1>>)

\* an asset observed, then missing, then observed at another price
C10_Witness ==
    /\ RowDone
    /\ idx >= 3
    /\ \E a \in Assets :
          /\ Observed(a, idx - 3) /\ ~Observed(a, idx - 2) /\ Observed(a, idx - 1)
          /\ Cell(a, idx - 3) # Cell(a, idx - 1)
          /\ lastValues[a] = Cell(a, idx - 1)

====
